---- MODULE Spec2Model ----
(***************************************************************************)
(* A model of ttc-rs, a one-pass compiler from a small BASIC-like language *)
(* to C: the lexer (src/src/lexer.rs), the recursive-descent parser that   *)
(* emits code while it parses (src/src/parser.rs), the two-buffer emitter  *)
(* (src/src/emitter.rs) and the driver (src/src/main.rs).                  *)
(*                                                                         *)
(* Text is modelled as a sequence of characters, each character a string.  *)
(* A panic (the code's only way to abort) is recorded in `abort`; every    *)
(* operator is the identity on a machine that has already panicked, which  *)
(* models the unwinding of the call chain.                                 *)
(***************************************************************************)
EXTENDS Integers, Sequences, FiniteSets

VARIABLES
    input,            \* the text read from the source file (main.rs read_source)
    lexer,            \* Lexer { source, curpos, curchar }
    curtoken,         \* Parser.curtoken (the local `token` of lexer.rs test::lex)
    tokens,           \* the tokens get_token has returned so far, in order
    symbols,          \* Parser.symbols
    declared_labels,  \* Parser.declared_labels
    gotoed_labels,    \* Parser.gotoed_labels
    header,           \* Emitter.header
    code,             \* Emitter.code
    stack,            \* the open parse_statement frames (If / While blocks)
    pc,               \* position of the driver
    abort,            \* the panic that ended the run, or NoAbort
    outfile           \* the output file: absent, or the text written to it

vars == <<input, lexer, curtoken, tokens, symbols, declared_labels, gotoed_labels,
          header, code, stack, pc, abort, outfile>>

-----------------------------------------------------------------------------
(* Bounds of the model *)

MaxLen == 4

MaxLines == 3

\* The calls of get_token made after it has returned Eof.
MaxCallsAtEof == 2

-----------------------------------------------------------------------------
(* Characters *)

NUL == "NUL"

NoneChar == "None"

\* A character outside ASCII: U+00E9, two bytes in UTF-8.
EAcute == "U+00E9"

Digits == {"0", "1", "2", "3", "4", "5", "6", "7", "8", "9"}

Letters ==
    {"a", "b", "c", "d", "e", "f", "g", "h", "i", "j", "k", "l", "m",
     "n", "o", "p", "q", "r", "s", "t", "u", "v", "w", "x", "y", "z",
     "A", "B", "C", "D", "E", "F", "G", "H", "I", "J", "K", "L", "M",
     "N", "O", "P", "Q", "R", "S", "T", "U", "V", "W", "X", "Y", "Z"}

IsDigit(c) == c \in Digits

IsAsciiAlphabetic(c) == c \in Letters

IsAsciiAlphanumeric(c) == c \in Letters \cup Digits

\* The number of bytes of a character in UTF-8.
Utf8Len(c) == IF c = EAcute THEN 2 ELSE 1

\* str::len: the length of a text in bytes.
StrLen(s) == Len(s) + Cardinality({i \in 1..Len(s) : Utf8Len(s[i]) = 2})

\* The byte offset at which the i-th character (1-based) of s starts.
ByteOffset(s, i) == (i - 1) + Cardinality({j \in 1..(i - 1) : Utf8Len(s[j]) = 2})

IsCharBoundary(s, b) == \E i \in 1..(Len(s) + 1) : ByteOffset(s, i) = b

-----------------------------------------------------------------------------
(* Panics *)

NoAbort == [kind |-> "none", what |-> "", text |-> <<>>]

Aborted(m) == m.abort.kind # "none"

Panic(m, kind, what, text) ==
    IF Aborted(m) THEN m
    ELSE [m EXCEPT !.abort = [kind |-> kind, what |-> what, text |-> text]]

LexerAbort(m, what, text) == Panic(m, "lexical", what, text)

-----------------------------------------------------------------------------
(* Tokens *)

KeywordOf(spelling) ==
    CASE spelling = <<"E", "N", "D", "I", "F">> -> "Endif"
      [] spelling = <<"E", "N", "D", "W", "H", "I", "L", "E">> -> "Endwhile"
      [] spelling = <<"G", "O", "T", "O">> -> "Goto"
      [] spelling = <<"I", "F">> -> "If"
      [] spelling = <<"I", "N", "P", "U", "T">> -> "Input"
      [] spelling = <<"L", "A", "B", "E", "L">> -> "Label"
      [] spelling = <<"L", "E", "T">> -> "Let"
      [] spelling = <<"R", "E", "P", "E", "A", "T">> -> "Repeat"
      [] spelling = <<"T", "H", "E", "N">> -> "Then"
      [] spelling = <<"W", "H", "I", "L", "E">> -> "While"
      [] spelling = <<"P", "R", "I", "N", "T">> -> "Print"
      [] OTHER -> "Ident"

TokenNew(kind, spelling) ==
    [kind |-> IF kind = "Ident" THEN KeywordOf(spelling) ELSE kind,
     spelling |-> spelling]

NoToken == [kind |-> "Eof", spelling |-> <<>>]

-----------------------------------------------------------------------------
(* The lexer *)

NoLexer == [source |-> <<>>, curpos |-> -1, curchar |-> NUL]

NextChar(m) ==
    IF Aborted(m) THEN m
    ELSE LET pos == m.lexer.curpos + 1
             src == m.lexer.source
         IN  IF pos >= StrLen(src)
             THEN [m EXCEPT !.lexer.curpos = pos, !.lexer.curchar = NUL]
             ELSE IF pos < Len(src)
             THEN [m EXCEPT !.lexer.curpos = pos, !.lexer.curchar = src[pos + 1]]
             ELSE Panic([m EXCEPT !.lexer.curpos = pos], "unwrap",
                        "called Option::unwrap() on a None value", <<>>)

Peek(m) ==
    LET pos == m.lexer.curpos + 1
        src == m.lexer.source
    IN  IF pos >= StrLen(src) THEN NUL
        ELSE IF pos < Len(src) THEN src[pos + 1]
        ELSE NoneChar

\* Lexer::new that takes the source as it is.
LexerNewUnterminated(m, text) ==
    NextChar([m EXCEPT !.lexer = [source |-> text, curpos |-> -1, curchar |-> NUL]])

LexerNew(m, text) ==
    NextChar([m EXCEPT !.lexer = [source |-> Append(text, "\n"),
                                  curpos |-> -1,
                                  curchar |-> NUL]])

\* A loop that has left the source reads NUL for ever.
Hang(m) == Panic(m, "hang", "the loop never ends", <<>>)

PastEnd(m) == m.lexer.curpos >= StrLen(m.lexer.source)

RECURSIVE SkipWhitespace(_)
SkipWhitespace(m) ==
    IF Aborted(m) THEN m
    ELSE IF m.lexer.curchar \in {" ", "\t", "\r"}
    THEN SkipWhitespace(NextChar(m))
    ELSE m

RECURSIVE CommentLoop(_)
CommentLoop(m) ==
    IF Aborted(m) THEN m
    ELSE IF m.lexer.curchar = "\n" THEN m
    ELSE IF PastEnd(m) THEN Hang(m)
    ELSE CommentLoop(NextChar(m))

SkipComment(m) ==
    IF Aborted(m) THEN m
    ELSE IF m.lexer.curchar = "#" THEN CommentLoop(m)
    ELSE m

\* &self.source[from..to]: the bytes of the source from `from` up to `to`.
Slice(src, from, to) ==
    LET first == CHOOSE i \in 1..(Len(src) + 1) : ByteOffset(src, i) = from
        last == CHOOSE i \in 1..(Len(src) + 1) : ByteOffset(src, i) = to
    IN  SubSeq(src, first, last - 1)

SliceOk(src, from, to) ==
    /\ from <= to
    /\ to <= StrLen(src)
    /\ IsCharBoundary(src, from)
    /\ IsCharBoundary(src, to)

Ret(m, kind, spelling) ==
    IF Aborted(m) THEN m
    ELSE [m EXCEPT !.curtoken = TokenNew(kind, spelling)]

RetSlice(m, kind, from, to) ==
    IF Aborted(m) THEN m
    ELSE IF SliceOk(m.lexer.source, from, to)
    THEN Ret(m, kind, Slice(m.lexer.source, from, to))
    ELSE Panic(m, "slice", "byte index is out of bounds or not a char boundary", <<>>)

LexOneOrTwo(m, kind1, kind2) ==
    IF Peek(m) = "="
    THEN Ret(NextChar(m), kind2, <<m.lexer.curchar, "=">>)
    ELSE Ret(m, kind1, <<m.lexer.curchar>>)

LexBang(m) ==
    IF Peek(m) = "="
    THEN Ret(NextChar(m), "NotEq", <<"!", "=">>)
    ELSE LexerAbort(m, "! must be followed by =", <<>>)

RECURSIVE StringLoop(_)
StringLoop(m) ==
    IF Aborted(m) THEN m
    ELSE IF m.lexer.curchar = "\"" THEN m
    ELSE IF m.lexer.curchar \in {"%", "\r", "\n", "\\", "\t"}
    THEN LexerAbort(m, "Unsupported character in string", <<m.lexer.curchar>>)
    ELSE IF PastEnd(m) THEN Hang(m)
    ELSE StringLoop(NextChar(m))

LexString(m) ==
    LET m1 == NextChar(m)
        startpos == m1.lexer.curpos
        m2 == StringLoop(m1)
    IN  RetSlice(m2, "String", startpos, m2.lexer.curpos)

RECURSIVE DigitLoop(_)
DigitLoop(m) ==
    IF Aborted(m) THEN m
    ELSE IF Peek(m) # NoneChar /\ IsDigit(Peek(m))
    THEN DigitLoop(NextChar(m))
    ELSE m

LexFraction(m) ==
    LET m1 == NextChar(m)
        m2 == IF Peek(m1) # NoneChar /\ ~IsDigit(Peek(m1))
              THEN LexerAbort(m1,
                       "numbers must have at least one digit after the decimal point",
                       <<>>)
              ELSE m1
    IN  DigitLoop(NextChar(m2))

LexNumber(m) ==
    LET startpos == m.lexer.curpos
        m1 == DigitLoop(m)
        m2 == IF ~Aborted(m1) /\ Peek(m1) = "." THEN LexFraction(m1) ELSE m1
    IN  RetSlice(m2, "Number", startpos, m2.lexer.curpos + 1)

RECURSIVE AlnumLoop(_)
AlnumLoop(m) ==
    IF Aborted(m) THEN m
    ELSE IF Peek(m) # NoneChar /\ IsAsciiAlphanumeric(Peek(m))
    THEN AlnumLoop(NextChar(m))
    ELSE m

LexIdent(m) ==
    LET startpos == m.lexer.curpos
        m1 == AlnumLoop(m)
    IN  RetSlice(m1, "Ident", startpos, m1.lexer.curpos + 1)

\* The match of get_token on the current character.
Classify(m) ==
    LET c == m.lexer.curchar
    IN  CASE c = "\n" -> Ret(m, "Newline", <<"\n">>)
          [] c = "+" -> Ret(m, "Plus", <<"+">>)
          [] c = "-" -> Ret(m, "Minus", <<"-">>)
          [] c = "*" -> Ret(m, "Asterisk", <<"*">>)
          [] c = "/" -> Ret(m, "Slash", <<"/">>)
          [] c = "=" -> LexOneOrTwo(m, "Eq", "EqEq")
          [] c = "<" -> LexOneOrTwo(m, "Lt", "Lte")
          [] c = ">" -> LexOneOrTwo(m, "Gt", "Gte")
          [] c = "!" -> LexBang(m)
          [] c = "\"" -> LexString(m)
          [] IsDigit(c) -> LexNumber(m)
          [] IsAsciiAlphabetic(c) -> LexIdent(m)
          [] c = NUL -> Ret(m, "Eof", <<>>)
          [] OTHER -> LexerAbort(m, "Unsupported token", <<c>>)

\* The return of get_token: the caller has the token.
Returned(m) ==
    IF Aborted(m) THEN m ELSE [m EXCEPT !.tokens = Append(@, m.curtoken)]

\* Lexer::get_token; the token returned is left in curtoken.
GetToken(m) ==
    IF Aborted(m) THEN m
    ELSE Returned(NextChar(Classify(SkipComment(SkipWhitespace(m)))))

-----------------------------------------------------------------------------
(* The emitter *)

NoFile == [exists |-> FALSE, text |-> <<>>]

HeaderLine(m, text) ==
    IF Aborted(m) THEN m ELSE [m EXCEPT !.header = @ \o text \o <<"\n">>]

EmitLine(m, text) ==
    IF Aborted(m) THEN m ELSE [m EXCEPT !.code = @ \o text \o <<"\n">>]

Emit(m, text) ==
    IF Aborted(m) THEN m ELSE [m EXCEPT !.code = @ \o text]

-----------------------------------------------------------------------------
(* The parser *)

CheckToken(m, kind) == m.curtoken.kind = kind

\* Every operation of a run is reached through Exec, so that the text of the
\* lexer occurs once in each action instead of once for every call site.
RECURSIVE Exec(_, _, _)

NextToken(m) == Exec("next_token", m, <<>>)

MatchToken(m, kind) ==
    IF Aborted(m) THEN m
    ELSE IF ~CheckToken(m, kind)
    THEN Panic(m, "syntax", "expected token of kind", <<kind, m.curtoken.kind>>)
    ELSE NextToken(m)

RECURSIVE NewlineLoop(_)
NewlineLoop(m) ==
    IF Aborted(m) THEN m
    ELSE IF CheckToken(m, "Newline") THEN NewlineLoop(NextToken(m))
    ELSE m

ParseNewline(m) == NewlineLoop(MatchToken(m, "Newline"))

\* parse_primary without the look-up in the symbol set.
ParsePrimaryUnchecked(m) ==
    IF Aborted(m) THEN m
    ELSE IF CheckToken(m, "Number") \/ CheckToken(m, "Ident")
    THEN NextToken(Emit(m, m.curtoken.spelling))
    ELSE Panic(m, "syntax", "Unexpected token", m.curtoken.spelling)

ParsePrimary(m) ==
    IF Aborted(m) THEN m
    ELSE IF CheckToken(m, "Number")
    THEN NextToken(Emit(m, m.curtoken.spelling))
    ELSE IF CheckToken(m, "Ident")
    THEN IF m.curtoken.spelling \notin m.symbols
         THEN Panic(m, "undeclared", "Undeclared variable", m.curtoken.spelling)
         ELSE NextToken(Emit(m, m.curtoken.spelling))
    ELSE Panic(m, "syntax", "Unexpected token", m.curtoken.spelling)

ParseUnary(m) ==
    IF Aborted(m) THEN m
    ELSE IF CheckToken(m, "Plus") \/ CheckToken(m, "Minus")
    THEN ParsePrimary(NextToken(Emit(m, m.curtoken.spelling)))
    ELSE ParsePrimary(m)

RECURSIVE TermLoop(_)
TermLoop(m) ==
    IF Aborted(m) THEN m
    ELSE IF CheckToken(m, "Asterisk") \/ CheckToken(m, "Slash")
    THEN TermLoop(ParseUnary(NextToken(Emit(m, m.curtoken.spelling))))
    ELSE m

ParseTerm(m) == TermLoop(ParseUnary(m))

RECURSIVE ExpressionLoop(_)
ExpressionLoop(m) ==
    IF Aborted(m) THEN m
    ELSE IF CheckToken(m, "Plus") \/ CheckToken(m, "Minus")
    THEN ExpressionLoop(ParseTerm(NextToken(Emit(m, m.curtoken.spelling))))
    ELSE m

ParseExpression(m) == ExpressionLoop(ParseTerm(m))

IsComparisonOperator(kind) ==
    kind \in {"EqEq", "NotEq", "Lt", "Lte", "Gt", "Gte"}

RECURSIVE ComparisonLoop(_)
ComparisonLoop(m) ==
    IF Aborted(m) THEN m
    ELSE IF IsComparisonOperator(m.curtoken.kind)
    THEN ComparisonLoop(ParseExpression(NextToken(Emit(m, m.curtoken.spelling))))
    ELSE m

\* parse_comparison that takes an expression alone for a condition.
ParseComparisonOptional(m) == ComparisonLoop(ParseExpression(m))

ParseComparison(m) ==
    LET m1 == ParseExpression(m)
        m2 == IF Aborted(m1) THEN m1
              ELSE IF IsComparisonOperator(m1.curtoken.kind)
              THEN ParseExpression(NextToken(Emit(m1, m1.curtoken.spelling)))
              ELSE Panic(m1, "syntax", "Expected comparison operator, but got",
                         <<m1.curtoken.kind>>)
    IN  ComparisonLoop(m2)

-----------------------------------------------------------------------------
(* parse_statement, one operator per arm of its match.  The recursion of   *)
(* the If and While arms is kept in `stack`: the head of the arm pushes a  *)
(* frame, the statements of the block are parsed by the loop of that       *)
(* frame, and the tail of the arm pops it.                                 *)

Top(m) == IF m.stack = <<>> THEN "Program" ELSE m.stack[Len(m.stack)]

Push(m, frame) ==
    IF Aborted(m) THEN m ELSE [m EXCEPT !.stack = Append(@, frame)]

Pop(m) ==
    IF Aborted(m) THEN m ELSE [m EXCEPT !.stack = SubSeq(@, 1, Len(@) - 1)]

\* The token that ends the loop of the innermost open frame.
LoopEnd(m) ==
    CASE Top(m) = "If" -> "Endif"
      [] Top(m) = "While" -> "Endwhile"
      [] OTHER -> "Eof"

StmtPrint(m) ==
    LET m1 == MatchToken(m, "Print")
        m2 == IF Aborted(m1) THEN m1
              ELSE IF CheckToken(m1, "String")
              THEN MatchToken(
                       EmitLine(m1, <<"printf(\"">> \o m1.curtoken.spelling
                                        \o <<"\\n\");">>),
                       "String")
              ELSE EmitLine(
                       ParseExpression(Emit(m1, <<"printf(\"%.2f\\n\", (float)(">>)),
                       <<"));">>)
    IN  ParseNewline(m2)

StmtIfHead(m) ==
    LET m1 == Emit(MatchToken(m, "If"), <<"if (">>)
        m2 == ParseNewline(MatchToken(ParseComparison(m1), "Then"))
    IN  Push(EmitLine(m2, <<") {">>), "If")

StmtIfTail(m) ==
    Pop(ParseNewline(EmitLine(MatchToken(m, "Endif"), <<"}">>)))

StmtWhileHead(m) ==
    LET m1 == Emit(MatchToken(m, "While"), <<"while (">>)
        m2 == ParseNewline(MatchToken(ParseComparison(m1), "Repeat"))
    IN  Push(EmitLine(m2, <<") {">>), "While")

StmtWhileTail(m) ==
    Pop(ParseNewline(EmitLine(MatchToken(m, "Endwhile"), <<"}">>)))

\* The Label arm without the look-up in the declared labels.
StmtLabelUnchecked(m) ==
    LET m1 == MatchToken(m, "Label")
        name == m1.curtoken.spelling
        m2 == IF Aborted(m1) THEN m1
              ELSE EmitLine([m1 EXCEPT !.declared_labels = @ \cup {name}],
                            name \o <<":">>)
    IN  ParseNewline(MatchToken(m2, "Ident"))

StmtLabel(m) ==
    LET m1 == MatchToken(m, "Label")
        name == m1.curtoken.spelling
        m2 == IF Aborted(m1) THEN m1
              ELSE IF name \in m1.declared_labels
              THEN Panic(m1, "duplicate_label", "Duplicate label", name)
              ELSE EmitLine([m1 EXCEPT !.declared_labels = @ \cup {name}],
                            name \o <<":">>)
    IN  ParseNewline(MatchToken(m2, "Ident"))

\* The Goto arm that forgets the label it names.
StmtGotoUnrecorded(m) ==
    LET m1 == MatchToken(m, "Goto")
        name == m1.curtoken.spelling
        m2 == IF Aborted(m1) THEN m1
              ELSE EmitLine(m1, <<"goto ">> \o name \o <<";">>)
    IN  ParseNewline(MatchToken(m2, "Ident"))

\* The Goto arm that looks its label up at once, as the Label arm does.
StmtGotoEager(m) ==
    LET m1 == MatchToken(m, "Goto")
        name == m1.curtoken.spelling
        m2 == IF Aborted(m1) THEN m1
              ELSE IF name \notin m1.declared_labels
              THEN Panic(m1, "undefined_label", "Goto's label is undefined", name)
              ELSE EmitLine([m1 EXCEPT !.gotoed_labels = @ \cup {name}],
                            <<"goto ">> \o name \o <<";">>)
    IN  ParseNewline(MatchToken(m2, "Ident"))

StmtGoto(m) ==
    LET m1 == MatchToken(m, "Goto")
        name == m1.curtoken.spelling
        m2 == IF Aborted(m1) THEN m1
              ELSE EmitLine([m1 EXCEPT !.gotoed_labels = @ \cup {name}],
                            <<"goto ">> \o name \o <<";">>)
    IN  ParseNewline(MatchToken(m2, "Ident"))

\* The declaration repeated at every LET and INPUT.
DeclareAlways(m) ==
    LET name == m.curtoken.spelling
    IN  IF Aborted(m) THEN m
        ELSE HeaderLine([m EXCEPT !.symbols = @ \cup {name}],
                        <<"float ">> \o name \o <<";">>)

\* The declaration of a name at its first LET or INPUT.
Declare(m) ==
    LET name == m.curtoken.spelling
    IN  IF Aborted(m) THEN m
        ELSE IF name \notin m.symbols
        THEN HeaderLine([m EXCEPT !.symbols = @ \cup {name}],
                        <<"float ">> \o name \o <<";">>)
        ELSE m

\* The Let arm with the declaration made after the right-hand side.
StmtLetLate(m) ==
    LET m1 == MatchToken(m, "Let")
        name == m1.curtoken.spelling
        m2 == Emit(m1, name \o <<" = ">>)
        m3 == ParseExpression(MatchToken(MatchToken(m2, "Ident"), "Eq"))
        m4 == IF Aborted(m3) \/ name \in m3.symbols THEN m3
              ELSE HeaderLine([m3 EXCEPT !.symbols = @ \cup {name}],
                              <<"float ">> \o name \o <<";">>)
    IN  ParseNewline(EmitLine(m4, <<";">>))

StmtLet(m) ==
    LET m1 == Declare(MatchToken(m, "Let"))
        m2 == Emit(m1, m1.curtoken.spelling \o <<" = ">>)
        m3 == ParseExpression(MatchToken(MatchToken(m2, "Ident"), "Eq"))
    IN  ParseNewline(EmitLine(m3, <<";">>))

StmtInput(m) ==
    LET m1 == Declare(MatchToken(m, "Input"))
        name == m1.curtoken.spelling
        m2 == EmitLine(m1, <<"if (0 == scanf(\"%f\", &">> \o name \o <<")) {">>)
        m3 == EmitLine(m2, name \o <<" = 0;">>)
        m4 == EmitLine(Emit(m3, <<"scanf(\"%">>), <<"*s\");">>)
        m5 == EmitLine(m4, <<"}">>)
    IN  ParseNewline(MatchToken(m5, "Ident"))

\* The default arm taking any other token for the end of the open block.
StmtInvalidCloses(m) == Pop(ParseNewline(NextToken(m)))

StmtInvalid(m) ==
    Panic(m, "syntax", "Invalid statement at",
          <<m.curtoken.kind>> \o m.curtoken.spelling)

StatementKinds == {"Print", "If", "While", "Label", "Goto", "Let", "Input"}

\* One call of parse_statement, up to the point where it returns or recurses.
ParseStatement(m) ==
    CASE m.curtoken.kind = "Print" -> StmtPrint(m)
      [] m.curtoken.kind = "If" -> StmtIfHead(m)
      [] m.curtoken.kind = "While" -> StmtWhileHead(m)
      [] m.curtoken.kind = "Label" -> StmtLabel(m)
      [] m.curtoken.kind = "Goto" -> StmtGoto(m)
      [] m.curtoken.kind = "Let" -> StmtLet(m)
      [] m.curtoken.kind = "Input" -> StmtInput(m)
      [] OTHER -> StmtInvalid(m)

-----------------------------------------------------------------------------
(* Parser::new, Parser::parse and main *)

ParserNew(m) ==
    LET m1 == NextToken(m)
    IN  IF Aborted(m1) THEN m1
        ELSE [m1 EXCEPT !.symbols = {}, !.declared_labels = {},
                        !.gotoed_labels = {}]

EmitterNew(m) == [m EXCEPT !.header = <<>>, !.code = <<>>]

Prologue ==
    <<"#include <stdio.h>", "\n", "int main(int argc, char *argv[]) {", "\n">>

Epilogue == <<"return 0;", "\n", "}", "\n">>

\* parse up to the first test of the loop of parse_program.
ParseBegin(m) ==
    LET m1 == NewlineLoop(m)
        m2 == HeaderLine(m1, <<"#include <stdio.h>">>)
    IN  HeaderLine(m2, <<"int main(int argc, char *argv[]) {">>)

UndefinedLabels(m) == m.gotoed_labels \ m.declared_labels

\* parse without its check of the labels.
ParseEndUnchecked(m, label) == EmitLine(EmitLine(m, <<"return 0;">>), <<"}">>)

\* The end of parse_program and the label check of parse; `label` is the
\* first undefined label the iteration over the hash set meets.
ParseEnd(m, label) ==
    LET m1 == EmitLine(EmitLine(m, <<"return 0;">>), <<"}">>)
    IN  IF UndefinedLabels(m1) = {} THEN m1
        ELSE Panic(m1, "undefined_label", "Goto's label is undefined", label)

WriteFile(m, created) ==
    IF Aborted(m) THEN m
    ELSE IF created
    THEN [m EXCEPT !.outfile = [exists |-> TRUE, text |-> m.header \o m.code]]
    ELSE m

-----------------------------------------------------------------------------
(* The source texts of the model *)

\* The characters of the texts given to the lexer alone.
LexAlphabet == {"1", ".", "a", "\"", "#", "=", " ", "\n", EAcute}

RawSources == UNION {[1..n -> LexAlphabet] : n \in 0..MaxLen}

RECURSIVE Join(_, _)
Join(parts, sep) ==
    IF parts = <<>> THEN <<>>
    ELSE IF Len(parts) = 1 THEN parts[1]
    ELSE parts[1] \o sep \o Join(Tail(parts), sep)

Words(ws) == Join(ws, <<" ">>)

KwLet == <<"L", "E", "T">>
KwInput == <<"I", "N", "P", "U", "T">>
KwPrint == <<"P", "R", "I", "N", "T">>
KwLabel == <<"L", "A", "B", "E", "L">>
KwGoto == <<"G", "O", "T", "O">>
KwIf == <<"I", "F">>
KwThen == <<"T", "H", "E", "N">>
KwEndif == <<"E", "N", "D", "I", "F">>
KwWhile == <<"W", "H", "I", "L", "E">>
KwRepeat == <<"R", "E", "P", "E", "A", "T">>
KwEndwhile == <<"E", "N", "D", "W", "H", "I", "L", "E">>

\* The lines the programs of the model are made of.
ProgramLines ==
    { Words(<<KwLet, <<"x">>, <<"=">>, <<"1">>>>),
      Words(<<KwLet, <<"x">>, <<"=">>, <<"x">>>>),
      Words(<<KwInput, <<"y">>>>),
      Words(<<KwLet, <<"y">>, <<"=">>, <<"x">>>>),
      Words(<<KwPrint, <<"y">>>>),
      Words(<<KwLabel, <<"a">>>>),
      Words(<<KwGoto, <<"a">>>>),
      Words(<<KwIf, <<"1">>, <<"=", "=">>, <<"2">>, <<"<">>, <<"3">>, KwThen>>),
      KwEndif,
      Words(<<KwWhile, <<"y">>, KwRepeat>>),
      Words(<<KwWhile, <<"y">>, <<">">>, <<"1">>, KwRepeat>>),
      KwEndwhile,
      <<>>,
      Words(<<KwInput, <<"#", EAcute>>>>) }

Programs ==
    {Join(ls, <<"\n">>) : ls \in UNION {[1..n -> ProgramLines] : n \in 0..MaxLines}}

-----------------------------------------------------------------------------
(* The state as a record, and back *)

State ==
    [input |-> input, lexer |-> lexer, curtoken |-> curtoken, tokens |-> tokens,
     symbols |-> symbols, declared_labels |-> declared_labels,
     gotoed_labels |-> gotoed_labels, header |-> header, code |-> code,
     stack |-> stack, pc |-> pc, abort |-> abort, outfile |-> outfile]

Fresh(text, start) ==
    [input |-> text, lexer |-> NoLexer, curtoken |-> NoToken, tokens |-> <<>>,
     symbols |-> {}, declared_labels |-> {}, gotoed_labels |-> {},
     header |-> <<>>, code |-> <<>>, stack |-> <<>>, pc |-> start,
     abort |-> NoAbort, outfile |-> NoFile]

\* A panic ends the run where it is.
Goes(m, next) == [m EXCEPT !.pc = IF Aborted(m) THEN "aborted" ELSE next]

Begin(m) ==
    /\ input = m.input
    /\ lexer = m.lexer
    /\ curtoken = m.curtoken
    /\ tokens = m.tokens
    /\ symbols = m.symbols
    /\ declared_labels = m.declared_labels
    /\ gotoed_labels = m.gotoed_labels
    /\ header = m.header
    /\ code = m.code
    /\ stack = m.stack
    /\ pc = m.pc
    /\ abort = m.abort
    /\ outfile = m.outfile

Load(m) ==
    /\ input' = m.input
    /\ lexer' = m.lexer
    /\ curtoken' = m.curtoken
    /\ tokens' = m.tokens
    /\ symbols' = m.symbols
    /\ declared_labels' = m.declared_labels
    /\ gotoed_labels' = m.gotoed_labels
    /\ header' = m.header
    /\ code' = m.code
    /\ stack' = m.stack
    /\ pc' = m.pc
    /\ abort' = m.abort
    /\ outfile' = m.outfile

-----------------------------------------------------------------------------
(* main: the compilation of one source file *)

Init == \E text \in Programs : Begin(Fresh(text, "start"))

\* The operations of a run; `arg` is the undefined label ParseEnd reports
\* and the result of File::create in WriteFile.
Exec(op, m, arg) ==
    CASE op = "next_token" -> GetToken(m)
      [] op = "main_start" ->
             Goes(ParserNew(LexerNew(EmitterNew(m), m.input)), "parse")
      [] op = "parse_begin" -> Goes(ParseBegin(m), "statements")
      [] op = "parse_statement" -> Goes(ParseStatement(m), "statements")
      [] op = "if_tail" -> Goes(StmtIfTail(m), "statements")
      [] op = "while_tail" -> Goes(StmtWhileTail(m), "statements")
      [] op = "parse_end" -> Goes(ParseEnd(m, arg), "parsed")
      [] op = "write_file" -> Goes(WriteFile(m, arg), "done")
      [] op = "lex_new" -> Goes(LexerNew(m, m.input), "lex_first")
      [] op = "lex_get_token" -> Goes(GetToken(m), "lex_loop")

InStatements(m) == m.pc = "statements" /\ m.curtoken.kind # LoopEnd(m)

AtBlockEnd(m) == m.pc = "statements" /\ m.curtoken.kind = LoopEnd(m)

MainStart == pc = "start" /\ Load(Exec("main_start", State, <<>>))

ParseStart == pc = "parse" /\ Load(Exec("parse_begin", State, <<>>))

OnPrint ==
    /\ InStatements(State)
    /\ curtoken.kind = "Print"
    /\ Load(Exec("parse_statement", State, <<>>))

OnIfHead ==
    /\ InStatements(State)
    /\ curtoken.kind = "If"
    /\ Load(Exec("parse_statement", State, <<>>))

OnWhileHead ==
    /\ InStatements(State)
    /\ curtoken.kind = "While"
    /\ Load(Exec("parse_statement", State, <<>>))

OnLabel ==
    /\ InStatements(State)
    /\ curtoken.kind = "Label"
    /\ Load(Exec("parse_statement", State, <<>>))

OnGoto ==
    /\ InStatements(State)
    /\ curtoken.kind = "Goto"
    /\ Load(Exec("parse_statement", State, <<>>))

OnLet ==
    /\ InStatements(State)
    /\ curtoken.kind = "Let"
    /\ Load(Exec("parse_statement", State, <<>>))

OnInput ==
    /\ InStatements(State)
    /\ curtoken.kind = "Input"
    /\ Load(Exec("parse_statement", State, <<>>))

OnInvalid ==
    /\ InStatements(State)
    /\ curtoken.kind \notin StatementKinds
    /\ Load(Exec("parse_statement", State, <<>>))

OnIfTail == AtBlockEnd(State) /\ Top(State) = "If" /\ Load(Exec("if_tail", State, <<>>))

OnWhileTail == AtBlockEnd(State) /\ Top(State) = "While" /\ Load(Exec("while_tail", State, <<>>))

ProgramEnd ==
    /\ AtBlockEnd(State)
    /\ Top(State) = "Program"
    /\ \E label \in UndefinedLabels(State) \cup {<<>>} :
           /\ (label = <<>>) = (UndefinedLabels(State) = {})
           /\ Load(Exec("parse_end", State, label))

MainWrite == pc = "parsed" /\ \E created \in BOOLEAN : Load(Exec("write_file", State, created))

Next ==
    \/ MainStart
    \/ ParseStart
    \/ OnPrint
    \/ OnIfHead
    \/ OnWhileHead
    \/ OnLabel
    \/ OnGoto
    \/ OnLet
    \/ OnInput
    \/ OnInvalid
    \/ OnIfTail
    \/ OnWhileTail
    \/ ProgramEnd
    \/ MainWrite

Spec == Init /\ [][Next]_vars

\* main has a call to make yet.
Running == pc \in {"start", "parse", "statements", "parsed"}

\* Weak fairness of Next, WF_vars(Next): main is sequential code, and the
\* call that is due is made.  Running is ENABLED <<Next>>_vars, and a step
\* that leaves a state of Running is a step of Next.
Fairness == []<>(~Running) \/ []<><<Running>>_vars

FairSpec == Spec /\ Fairness

-----------------------------------------------------------------------------
(* test::lex of lexer.rs: the lexer alone, called until end of input *)

LexInit == Begin(Fresh(<<>>, "lex_new"))

LexNew ==
    /\ pc = "lex_new"
    /\ \E text \in RawSources :
           Load(Exec("lex_new", [State EXCEPT !.input = text], <<>>))

\* The loop of test::lex goes on: Lexer::new or the next get_token is due.
LexRunning == pc \in {"lex_new", "lex_first"} \/ (pc = "lex_loop" /\ curtoken.kind # "Eof")

LexGetToken ==
    /\ pc = "lex_first" \/ (pc = "lex_loop" /\ curtoken.kind # "Eof")
    /\ Load(Exec("lex_get_token", State, <<>>))

LexNext == LexNew \/ LexGetToken

\* Weak fairness of LexNext, WF_vars(LexNext): test::lex is sequential code,
\* and a call that is due is made.  LexRunning is ENABLED <<LexNext>>_vars,
\* and a step that leaves a state of LexRunning is a step of LexNext.
LexFairness == []<>(~LexRunning) \/ []<><<LexRunning>>_vars

LexSpec == LexInit /\ [][LexNext]_vars /\ LexFairness

\* A caller that goes on calling get_token after Eof, as the interface of
\* Lexer allows: get_token is public and takes any state of the lexer.
LexGetTokenAtEof ==
    /\ pc = "lex_loop"
    /\ curtoken.kind = "Eof"
    /\ lexer.curpos < StrLen(lexer.source) + MaxCallsAtEof
    /\ Load(Exec("lex_get_token", State, <<>>))

LexAgainNext == LexNew \/ LexGetToken \/ LexGetTokenAtEof

LexAgainSpec == LexInit /\ [][LexAgainNext]_vars

-----------------------------------------------------------------------------
(* Where a run is, and a whole compilation as one function *)

\* The run is between two operations of the parser, or the parser (and not
\* the lexer or the runtime) has ended it.
ParserAbortKinds ==
    {"syntax", "undeclared", "duplicate_label", "undefined_label"}

Parsing == pc \in {"statements", "parsed", "done"}

AbortedByParser == pc = "aborted" /\ abort.kind \in ParserAbortKinds

\* parse, from the start of main to the end of the statement list.
RECURSIVE RunParse(_)
RunParse(m) ==
    CASE m.pc = "start" -> RunParse(Exec("main_start", m, <<>>))
      [] m.pc = "parse" -> RunParse(Exec("parse_begin", m, <<>>))
      [] InStatements(m) -> RunParse(Exec("parse_statement", m, <<>>))
      [] AtBlockEnd(m) /\ Top(m) = "If" -> RunParse(Exec("if_tail", m, <<>>))
      [] AtBlockEnd(m) /\ Top(m) = "While" -> RunParse(Exec("while_tail", m, <<>>))
      [] OTHER -> m

\* What a compilation ends in: the panic, or the two buffers.
Outcome(m) ==
    [abort |-> m.abort,
     header |-> IF Aborted(m) THEN <<>> ELSE m.header,
     code |-> IF Aborted(m) THEN <<>> ELSE m.code]

CompileOutcomes(text) ==
    LET m == RunParse(Fresh(text, "start"))
    IN  IF Aborted(m) THEN {Outcome(m)}
        ELSE IF UndefinedLabels(m) = {} THEN {Outcome(Exec("parse_end", m, <<>>))}
        ELSE {Outcome(Exec("parse_end", m, label)) : label \in UndefinedLabels(m)}

-----------------------------------------------------------------------------
(* Variables: declaration and reference (C1) *)

\* The token at i follows LET or INPUT: it names the variable declared.
IsDeclaration(toks, i) ==
    i > 1 /\ i <= Len(toks) /\ toks[i - 1].kind \in {"Let", "Input"}

\* The token at i is an identifier where the grammar has a primary: after
\* PRINT, IF, WHILE, "=" or an operator.
IsReference(toks, i) ==
    /\ i > 1
    /\ i <= Len(toks)
    /\ toks[i].kind = "Ident"
    /\ toks[i - 1].kind \in
           {"Print", "If", "While", "Eq", "Plus", "Minus", "Asterisk", "Slash",
            "EqEq", "NotEq", "Lt", "Lte", "Gt", "Gte"}

DeclaredBefore(toks, i) ==
    \E j \in 1..(i - 1) :
        IsDeclaration(toks, j) /\ toks[j].spelling = toks[i].spelling

\* C1: a reference to a variable that no earlier LET or INPUT names ends the
\* compilation with the undeclared-variable error, and a reference to a
\* variable that an earlier LET or INPUT names never does, in a block or not:
\* every reference read and accepted was declared before it, and the run has
\* ended with that error exactly when the token it stopped at is a reference
\* with no declaration before it.
C1_UndeclaredReferenceAborts ==
    (Parsing \/ AbortedByParser) =>
        LET toks == tokens
            n == Len(toks)
        IN  /\ \A i \in 1..(n - 1) :
                   IsReference(toks, i) => DeclaredBefore(toks, i)
            /\ abort.kind = "undeclared" <=>
                   (AbortedByParser /\ IsReference(toks, n)
                       /\ ~DeclaredBefore(toks, n))
            /\ abort.kind = "undeclared" => abort.text = toks[n].spelling

\* Inside a block, after a reference to a declared variable was accepted,
\* a reference to an undeclared one has ended the run.
C1_Witness ==
    /\ abort.kind = "undeclared"
    /\ stack # <<>>
    /\ \E i \in 1..(Len(tokens) - 1) : IsReference(tokens, i)

-----------------------------------------------------------------------------
(* Labels (C2, C3, C4) *)

\* The names that follow the keyword `kind` among the first n tokens.
NamesAfter(toks, kind, n) ==
    {toks[i].spelling : i \in {j \in 2..n : toks[j - 1].kind = kind}}

\* The positions among the first n tokens of the statements `kind name`.
StatementsOf(toks, kind, name, n) ==
    {i \in 2..n : toks[i - 1].kind = kind /\ toks[i].spelling = name}

\* C2: parse returns normally only if every label a GOTO of the program names
\* is declared by a LABEL of the program, before the GOTO or after it; and a
\* run ends with the undefined-label error only for a label that a GOTO names
\* and no LABEL declares, never for a declared label that no GOTO names.
C2_ParsedOnlyIfGotosDeclared ==
    LET toks == tokens
        n == Len(toks)
    IN  /\ pc \in {"parsed", "done"} =>
               NamesAfter(toks, "Goto", n) \subseteq NamesAfter(toks, "Label", n)
        /\ abort.kind = "undefined_label" =>
               /\ abort.text \in NamesAfter(toks, "Goto", n)
               /\ abort.text \notin NamesAfter(toks, "Label", n)

\* parse has returned for a program whose GOTO comes before the LABEL it names
\* and which declares that label once.
C2_Witness ==
    /\ pc = "parsed"
    /\ \E i, j \in 2..Len(tokens) :
           /\ i < j
           /\ tokens[i - 1].kind = "Goto"
           /\ tokens[j - 1].kind = "Label"
           /\ tokens[i].spelling = tokens[j].spelling

EndsWith(text, tail) ==
    /\ Len(text) >= Len(tail)
    /\ SubSeq(text, Len(text) - Len(tail) + 1, Len(text)) = tail

\* C3: the undefined-label error is raised only at the end of parse: the
\* whole source has been read up to the end-of-input token, no block is open,
\* and the epilogue is the last thing in the body buffer.  So no GOTO
\* statement ends the run with it, and a defect after the GOTO is met first.
C3_UndefinedLabelOnlyAtEnd ==
    abort.kind = "undefined_label" =>
        /\ curtoken.kind = "Eof"
        /\ lexer.curpos >= StrLen(lexer.source)
        /\ stack = <<>>
        /\ EndsWith(code, Epilogue)
        /\ header # <<>>

\* The run has ended with the undefined-label error for a program whose first
\* statement is the GOTO and which has statements after it.
C3_Witness ==
    /\ abort.kind = "undefined_label"
    /\ Len(tokens) > 4
    /\ tokens[1].kind = "Goto"
    /\ \E i \in 4..Len(tokens) : tokens[i].kind \in StatementKinds

\* The number of places of `text` where `part` occurs.
Occurrences(text, part) ==
    Cardinality({i \in 1..Len(text) :
                    /\ i + Len(part) - 1 <= Len(text)
                    /\ SubSeq(text, i, i + Len(part) - 1) = part})

\* C4: a label is declared at most once.  No run goes on past a second LABEL
\* of a name; the run that stops at one has ended with the duplicate-label
\* error, at that statement, and the body buffer holds the one line of the
\* first declaration; whether a GOTO names the label makes no difference.
C4_DuplicateLabelAborts ==
    (Parsing \/ AbortedByParser) =>
        LET toks == tokens
            n == Len(toks)
            second == n > 1 /\ toks[n - 1].kind = "Label"
                          /\ StatementsOf(toks, "Label", toks[n].spelling, n - 1) # {}
        IN  /\ \A i \in 2..(n - 1) :
                   toks[i - 1].kind = "Label" =>
                       StatementsOf(toks, "Label", toks[i].spelling, n - 1) = {i}
            /\ abort.kind = "duplicate_label" <=> (AbortedByParser /\ second)
            /\ abort.kind = "duplicate_label" =>
                   /\ abort.text = toks[n].spelling
                   /\ Occurrences(code, <<"\n">> \o abort.text \o <<":", "\n">>)
                        + (IF SubSeq(code, 1, Len(abort.text) + 2)
                                 = abort.text \o <<":", "\n">> THEN 1 ELSE 0) = 1

\* The second LABEL of a name that no GOTO names has ended the run inside a
\* block.
C4_Witness ==
    /\ abort.kind = "duplicate_label"
    /\ stack # <<>>
    /\ abort.text \notin gotoed_labels

-----------------------------------------------------------------------------
(* The output file (C5) *)

\* C5: the output file is written at most once, by main after parse has
\* returned: it exists only at the end of a run that did not panic, whose
\* source was read to its end and whose GOTOs all name declared labels, and
\* it is created by the one step that follows the return of parse; a run
\* that panicked has written nothing.
C5_OutputOnlyAfterParse ==
    /\ [](outfile.exists =>
              /\ pc = "done"
              /\ abort = NoAbort
              /\ curtoken.kind = "Eof"
              /\ stack = <<>>
              /\ NamesAfter(tokens, "Goto", Len(tokens))
                     \subseteq NamesAfter(tokens, "Label", Len(tokens))
              /\ outfile.text = header \o code)
    /\ [](pc # "done" => outfile = NoFile)
    /\ [][outfile' # outfile => pc = "parsed" /\ outfile = NoFile /\ pc' = "done"]_vars

\* The file has been written for a program with a GOTO and its label.
C5_Witness ==
    /\ outfile.exists
    /\ gotoed_labels # {}
    /\ EndsWith(outfile.text, Epilogue)

-----------------------------------------------------------------------------
(* The header buffer (C6) *)

\* The names declared by the LET and INPUT statements among the first n
\* tokens, each once, in the order of their first statement.
RECURSIVE FirstUses(_, _)
FirstUses(toks, n) ==
    IF n < 2 THEN <<>>
    ELSE LET before == FirstUses(toks, n - 1)
         IN  IF IsDeclaration(toks, n)
                  /\ \A k \in 1..Len(before) : before[k] # toks[n].spelling
             THEN Append(before, toks[n].spelling)
             ELSE before

RECURSIVE Declarations(_)
Declarations(names) ==
    IF names = <<>> THEN <<>>
    ELSE <<"float ">> \o Head(names) \o <<";", "\n">> \o Declarations(Tail(names))

\* C6: between two statements and at the end of a run that did not panic,
\* the header buffer is the two lines of the prologue and then one
\* declaration for each name a LET or INPUT read so far names, in the order
\* of first use; a later LET or INPUT of the name adds nothing to it.
C6_HeaderDeclaresEachNameOnce ==
    Parsing => header = Prologue \o Declarations(FirstUses(tokens, Len(tokens)))

\* Two names are declared, and one of them is named by a LET and by an INPUT.
C6_Witness ==
    /\ Parsing
    /\ Cardinality(symbols) >= 2
    /\ \E name \in symbols :
           /\ StatementsOf(tokens, "Let", name, Len(tokens)) # {}
           /\ StatementsOf(tokens, "Input", name, Len(tokens)) # {}

-----------------------------------------------------------------------------
(* Conditions (C10) *)

RECURSIVE Concat(_)
Concat(parts) == IF parts = <<>> THEN <<>> ELSE Head(parts) \o Concat(Tail(parts))

\* The position of the THEN or REPEAT that ends the condition opened at i,
\* or 0 when it is not among the first n tokens.
ConditionEnd(toks, i, n) ==
    LET ends == {j \in (i + 1)..n : toks[j].kind \in {"Then", "Repeat"}}
    IN  IF ends = {} THEN 0 ELSE CHOOSE j \in ends : \A k \in ends : j <= k

Comparators(toks, from, to) ==
    {j \in from..to : IsComparisonOperator(toks[j].kind)}

\* The conditions among the first n tokens, each as the text of its tokens.
RECURSIVE SourceConditions(_, _, _)
SourceConditions(toks, i, n) ==
    IF i > n THEN <<>>
    ELSE IF toks[i].kind \in {"If", "While"} /\ ConditionEnd(toks, i, n) # 0
    THEN <<Concat([k \in 1..(ConditionEnd(toks, i, n) - i - 1) |->
                      toks[i + k].spelling])>>
             \o SourceConditions(toks, i + 1, n)
    ELSE SourceConditions(toks, i + 1, n)

\* The conditions in the body buffer: what stands between "if (" or
\* "while (" and the next ") {".
RECURSIVE EmittedConditions(_, _)
EmittedConditions(text, i) ==
    IF i > Len(text) THEN <<>>
    ELSE IF text[i] \in {"if (", "while ("}
    THEN LET ends == {j \in (i + 1)..Len(text) : text[j] = ") {"}
         IN  IF ends = {} THEN <<>>
             ELSE <<SubSeq(text, i + 1, (CHOOSE j \in ends : \A k \in ends : j <= k) - 1)>>
                      \o EmittedConditions(text, i + 1)
    ELSE EmittedConditions(text, i + 1)

\* The last IF or WHILE among the first n tokens, or 0.
LastConditionStart(toks, n) ==
    LET starts == {j \in 1..n : toks[j].kind \in {"If", "While"}}
    IN  IF starts = {} THEN 0 ELSE CHOOSE j \in starts : \A k \in starts : j >= k

\* C10: every condition of an IF or WHILE that was accepted has at least one
\* comparison operator, and the body buffer holds the conditions as written,
\* operators included, in the order of the source; a run that reached THEN or
\* REPEAT after an expression with no comparison operator has ended with the
\* syntax error of parse_comparison.
C10_ConditionNeedsComparator ==
    LET toks == tokens
        n == Len(toks)
        start == LastConditionStart(toks, n)
    IN  /\ Parsing =>
               /\ \A i \in 1..(n - 1) :
                      toks[i].kind \in {"If", "While"} =>
                          /\ ConditionEnd(toks, i, n - 1) # 0
                          /\ Comparators(toks, i, ConditionEnd(toks, i, n - 1)) # {}
               /\ EmittedConditions(code, 1) = SourceConditions(toks, 1, n - 1)
        /\ (AbortedByParser /\ start # 0 /\ toks[n].kind \in {"Then", "Repeat"}
                /\ ConditionEnd(toks, start, n - 1) = 0
                /\ Comparators(toks, start, n) = {}) =>
               /\ abort.kind = "syntax"
               /\ abort.what = "Expected comparison operator, but got"

\* A condition with two comparison operators has been accepted.
C10_Witness ==
    /\ Parsing
    /\ \E i \in 1..(Len(tokens) - 1) :
           /\ tokens[i].kind = "If"
           /\ Cardinality(Comparators(tokens, i,
                   ConditionEnd(tokens, i, Len(tokens) - 1))) >= 2

-----------------------------------------------------------------------------
(* The final newline (C7) *)

\* C7: compiling a source and compiling the source followed by a newline
\* give the same outcome: the same abort, or the same header and body.
C7_FinalNewlineChangesNothing ==
    pc = "start" => CompileOutcomes(input) = CompileOutcomes(Append(input, "\n"))

-----------------------------------------------------------------------------
(* Termination of the lexer (C8) *)

\* The end-of-input token has been returned, or the run has ended in a panic.
LexEnded == pc = "aborted" \/ (pc = "lex_loop" /\ curtoken.kind = "Eof")

\* C8: repeated calls of get_token terminate, for every source: a call that
\* returns a token other than Eof leaves the cursor past the position it had
\* on entry, no loop of skip_comment or of the string arm goes on reading
\* after the end of the source, and after finitely many calls the run has
\* ended in a panic (of abort, or of the runtime) or Eof has been returned.
C8_GetTokenTerminates ==
    /\ [][(pc' = "lex_loop" /\ curtoken'.kind # "Eof") =>
              lexer'.curpos > lexer.curpos]_vars
    /\ [](abort.kind # "hang")
    /\ [](pc = "lex_loop" /\ curtoken.kind # "Eof" =>
              lexer.curpos <= StrLen(lexer.source))
    /\ <>LexEnded

\* Eof has been returned for a source with a string literal and, after it,
\* a comment.
C8_Witness ==
    /\ pc = "lex_loop"
    /\ curtoken.kind = "Eof"
    /\ \E i \in 1..Len(input) :
           /\ input[i] = "#"
           /\ Cardinality({j \in 1..i : input[j] = "\""}) = 2
    /\ \E i \in 1..Len(tokens) : tokens[i].kind = "String"

-----------------------------------------------------------------------------
(* Numeric literals (C9) *)

\* The position of the last of the digits that start at position i of src.
DigitsEnd(src, i) ==
    CHOOSE j \in i..Len(src) :
        /\ \A k \in i..j : IsDigit(src[k])
        /\ (j = Len(src) \/ ~IsDigit(src[j + 1]))

\* The position of the last character of the literal that starts at i, or 0
\* when its '.' is followed by no digit.
LiteralEnd(src, i) ==
    LET e == DigitsEnd(src, i)
    IN  IF e < Len(src) /\ src[e + 1] = "."
        THEN IF e + 1 < Len(src) /\ IsDigit(src[e + 2])
             THEN DigitsEnd(src, e + 2)
             ELSE 0
        ELSE e

\* The state in which get_token looks at the first character of its token.
AtTokenStart == SkipComment(SkipWhitespace(State))

\* C9: a call of get_token that finds a digit returns one Number token whose
\* spelling is the whole literal, the digits and, if a '.' and a digit
\* follow, the '.' and the digits after it; when a '.' follows the digits and
\* no digit follows the '.', the call ends with the lexical error and returns
\* no token.
C9_NumberIsWholeLiteral ==
    [][(pc \in {"lex_first", "lex_loop"} /\ IsDigit(AtTokenStart.lexer.curchar)) =>
          LET src == lexer.source
              i == AtTokenStart.lexer.curpos + 1
              e == LiteralEnd(src, i)
          IN  IF e = 0
              THEN /\ pc' = "aborted"
                   /\ abort'.kind = "lexical"
                   /\ abort'.what =
                          "numbers must have at least one digit after the decimal point"
              ELSE /\ pc' = "lex_loop"
                   /\ curtoken' = [kind |-> "Number", spelling |-> SubSeq(src, i, e)]]_vars

-----------------------------------------------------------------------------
(* get_token at the end of the source (C11) *)

\* C11: a call of get_token made with the cursor at the sentinel, past the
\* end of the source, returns the Eof token and leaves the position of the
\* cursor and its current character as they were.
C11_EofDoesNotAdvance ==
    [][(pc \in {"lex_first", "lex_loop"} /\ PastEnd(State) /\ lexer.curchar = NUL) =>
          /\ curtoken'.kind = "Eof"
          /\ lexer'.curchar = lexer.curchar
          /\ lexer'.curpos = lexer.curpos]_vars

-----------------------------------------------------------------------------
(* Spellings and the current character (C12) *)

WordKinds ==
    {"Ident", "Number", "Goto", "If", "Endif", "Endwhile", "Input", "Label",
     "Let", "Repeat", "Then", "While", "Print"}

\* The character at the cursor, or the sentinel past the last character.
CharAtCursor ==
    IF lexer.curpos < Len(lexer.source) THEN lexer.source[lexer.curpos + 1] ELSE NUL

\* C12: for every source, with multi-byte characters or not, the lexer does
\* not panic in the runtime, its current character is the character at the
\* cursor or the sentinel past the last character, and the spelling of a
\* token get_token returns is the text of its lexeme: the characters from
\* the first of the token to the cursor for an identifier, a keyword or a
\* number, the characters between the quotes for a string.
C12_SpellingIsLexeme ==
    /\ [](abort.kind \notin {"unwrap", "slice"})
    /\ [](pc \in {"lex_first", "lex_loop"} => lexer.curchar = CharAtCursor)
    /\ [][(pc \in {"lex_first", "lex_loop"} /\ pc' = "lex_loop") =>
              LET from == AtTokenStart.lexer.curpos
                  to == lexer'.curpos
              IN  /\ curtoken'.kind \in WordKinds =>
                         curtoken'.spelling = SubSeq(lexer.source, from + 1, to)
                  /\ curtoken'.kind = "String" =>
                         curtoken'.spelling = SubSeq(lexer.source, from + 2, to - 1)]_vars

-----------------------------------------------------------------------------
(* The symbol set (C13) *)

\* The spellings that follow LET or INPUT among the first n tokens.
DeclaredNames(toks, n) == NamesAfter(toks, "Let", n) \cup NamesAfter(toks, "Input", n)

\* C13: at every point of a run the symbol set is the set of the names that
\* followed a LET or an INPUT so far, the target of the LET being parsed
\* included from the moment it is read; so no run ends with the
\* undeclared-variable error for the target of a LET on the right-hand
\* side of that LET.  In a run that has not panicked what followed each
\* LET and INPUT is an identifier.
C13_LetDeclaresBeforeExpression ==
    /\ symbols = DeclaredNames(tokens, Len(tokens))
    /\ abort = NoAbort =>
           \A i \in 2..Len(tokens) :
               tokens[i - 1].kind \in {"Let", "Input"} => tokens[i].kind = "Ident"
    /\ abort.kind = "undeclared" =>
           abort.text \notin DeclaredNames(tokens, Len(tokens))

\* LET x = x has been accepted where no earlier LET or INPUT names x.
C13_Witness ==
    /\ Parsing
    /\ \E i \in 1..(Len(tokens) - 4) :
           /\ tokens[i].kind = "Let"
           /\ tokens[i + 2].kind = "Eq"
           /\ tokens[i + 3].kind = "Ident"
           /\ tokens[i + 3].spelling = tokens[i + 1].spelling
           /\ tokens[i + 4].kind = "Newline"
           /\ tokens[i + 1].spelling \notin DeclaredNames(tokens, i)

-----------------------------------------------------------------------------
(* Blocks and the termination of parse (C14) *)

\* The token that closes a block.
Closer(block) == IF block = "If" THEN "Endif" ELSE "Endwhile"

Mismatch == <<"mismatch">>

\* The blocks open after the first n tokens, innermost last, or Mismatch
\* when one of them closes a block that is not the innermost open one.
RECURSIVE OpenBlocks(_, _)
OpenBlocks(toks, n) ==
    IF n = 0 THEN <<>>
    ELSE LET open == OpenBlocks(toks, n - 1)
             kind == toks[n].kind
         IN  IF open = Mismatch THEN Mismatch
             ELSE IF kind \in {"If", "While"} THEN Append(open, kind)
             ELSE IF kind \in {"Endif", "Endwhile"}
             THEN IF open # <<>> /\ Closer(open[Len(open)]) = kind
                  THEN SubSeq(open, 1, Len(open) - 1)
                  ELSE Mismatch
             ELSE open

ParseEnded == pc \in {"parsed", "done", "aborted"}

\* C14: parse terminates, with its return or with a panic; every call of
\* parse_statement that returns, and every end of a block, has read at least
\* one token; the blocks open between two statements are those the tokens
\* read have opened and not closed, each closed by its own terminator, the
\* innermost first, and none is open when parse returns; and a call that
\* finds Eof inside an open block, or a terminator that is not the one of the
\* innermost open block, panics with a syntax error.
C14_ParseTerminates ==
    /\ <>ParseEnded
    /\ [][(pc = "statements" /\ pc' = "statements") => Len(tokens') > Len(tokens)]_vars
    /\ [](Parsing => stack = OpenBlocks(tokens, Len(tokens) - 1))
    /\ [](pc \in {"parsed", "done"} => stack = <<>> /\ curtoken.kind = "Eof")
    /\ [][(/\ pc = "statements"
            /\ curtoken.kind \in {"Eof", "Endif", "Endwhile"}
            /\ (stack = <<>> => curtoken.kind # "Eof")
            /\ (stack # <<>> => curtoken.kind # Closer(stack[Len(stack)])))
              => (pc' = "aborted" /\ abort'.kind = "syntax" /\ stack' = stack)]_vars

\* A run has ended in a panic at ENDWHILE with an IF block innermost of two
\* open blocks.
C14_Witness ==
    /\ pc = "aborted"
    /\ Len(stack) = 2
    /\ stack[2] = "If"
    /\ curtoken.kind = "Endwhile"

====
